---- MODULE Spec2Model ----
(***************************************************************************)
(* Lumina-Translate: the format engine (services/parser), the batch        *)
(* translator (services/geminiService.ts, translateBatch) and the driver   *)
(* of a translation run (App.startTranslation and the handlers that write  *)
(* the segment list).                                                      *)
(*                                                                         *)
(* A text is a sequence of one-character strings, so that splitting,       *)
(* trimming and joining are computed as the code computes them.            *)
(*                                                                         *)
(* State of the component that never reaches the segment list or a         *)
(* request's outcome (fileName, theme, preview mode, target language,      *)
(* tone, the Gemini model name) is left out.                               *)
(***************************************************************************)
EXTENDS Integers, Sequences, FiniteSets, TLC

(***************************************************************************)
(* Characters and the string helpers of the JavaScript runtime             *)
(***************************************************************************)
NL == "\n"
CR == "\r"
EmptyText == <<>>

\* \d of a regular expression
IsDigit(c) == c \in {"0", "1", "2", "3", "4", "5", "6", "7", "8", "9"}

\* \s of a regular expression and the characters String.prototype.trim strips
\* (restricted to the white space the modelled inputs use)
IsSpace(c) == c \in {" ", "\t", NL, CR}

\* the characters "." of a regular expression does not match
IsLineTerminator(c) == c \in {NL, CR}

RECURSIVE TrimStart(_)
TrimStart(s) ==
  IF s = <<>> THEN s
  ELSE IF IsSpace(Head(s)) THEN TrimStart(Tail(s)) ELSE s

RECURSIVE TrimEnd(_)
TrimEnd(s) ==
  IF s = <<>> THEN s
  ELSE IF IsSpace(s[Len(s)]) THEN TrimEnd(SubSeq(s, 1, Len(s) - 1)) ELSE s

\* String.prototype.trim
Trim(s) == TrimEnd(TrimStart(s))

\* Array.prototype.join
RECURSIVE Join(_, _)
Join(parts, sep) ==
  IF parts = <<>> THEN <<>>
  ELSE IF Len(parts) = 1 THEN parts[1]
  ELSE parts[1] \o sep \o Join(Tail(parts), sep)

\* does text s hold the characters of pat from position i on
HasAt(s, i, pat) ==
  /\ i >= 1
  /\ i + Len(pat) - 1 <= Len(s)
  /\ \A k \in 1..Len(pat) : s[i + k - 1] = pat[k]

\* String.prototype.includes
Includes(s, pat) == \E i \in 1..Len(s) : HasAt(s, i, pat)

\* first position from i on that holds no white space (Len(s) + 1 if none):
\* where a greedy \s* ends
RECURSIVE SkipSpace(_, _)
SkipSpace(s, i) ==
  IF i > Len(s) THEN i
  ELSE IF IsSpace(s[i]) THEN SkipSpace(s, i + 1) ELSE i

(***************************************************************************)
(* String.prototype.split                                                  *)
(***************************************************************************)
\* /\n\s*\n/ tried at position i: the position of the last character of the
\* match, 0 if there is none. \s* is greedy and gives back until a \n follows,
\* so the match ends at the last \n of the white space run that follows s[i].
BlankMatchEnd(s, i) ==
  IF i > Len(s) \/ s[i] # NL THEN 0
  ELSE LET stop == SkipSpace(s, i + 1)
           nls  == {k \in (i + 1)..(stop - 1) : s[k] = NL}
       IN  IF nls = {} THEN 0 ELSE CHOOSE k \in nls : \A j \in nls : j <= k

\* the pieces of s from position p on, between the matches of a pattern:
\* ends[q] is the position of the last character of the match that starts at
\* q, and each match is the leftmost one after the match before it
RECURSIVE PiecesFrom(_, _, _)
PiecesFrom(s, p, ends) ==
  LET starts == {q \in DOMAIN ends : q >= p}
      q == CHOOSE i \in starts : \A j \in starts : i <= j
  IN  IF starts = {} THEN << SubSeq(s, p, Len(s)) >>
      ELSE << SubSeq(s, p, q - 1) >> \o PiecesFrom(s, ends[q] + 1, ends)

\* split(/\n\s*\n/)
SplitBlank(s) ==
  PiecesFrom(s, 1, [q \in {i \in 1..Len(s) : BlankMatchEnd(s, i) > 0} |->
                      BlankMatchEnd(s, q)])

\* split('\n')
SplitNL(s) ==
  PiecesFrom(s, 1, [q \in {i \in 1..Len(s) : s[i] = NL} |-> q])

\* split(/\r?\n/): a match starts at a \r that a \n follows, or at a \n
\* that no \r precedes
SplitCRNL(s) ==
  PiecesFrom(s, 1,
    [q \in {i \in 1..Len(s) :
              \/ HasAt(s, i, <<CR, NL>>)
              \/ s[i] = NL /\ ~HasAt(s, i - 1, <<CR, NL>>)} |->
       IF s[q] = CR THEN q + 1 ELSE q])

\* replace(/\r\n/g, '\n')
NormalizeCRLF(s) ==
  LET pairs == [i \in 1..Len(s) |-> << s[i], IF i < Len(s) THEN s[i + 1] ELSE "" >>]
      Kept(pair) == ~(pair[1] = CR /\ pair[2] = NL)
      kept == SelectSeq(pairs, Kept)
  IN  [k \in 1..Len(kept) |-> kept[k][1]]

(***************************************************************************)
(* services/parser: detection                                              *)
(***************************************************************************)
\* \d{2}:\d{2}:\d{2},\d{3} at position i
TimestampAt(s, i) ==
  /\ i >= 1
  /\ i + 11 <= Len(s)
  /\ \A k \in {0, 1, 3, 4, 6, 7, 9, 10, 11} : IsDigit(s[i + k])
  /\ s[i + 2] = ":" /\ s[i + 5] = ":" /\ s[i + 8] = ","

\* /(\d{2}:\d{2}:\d{2},\d{3})\s*-->\s*(\d{2}:\d{2}:\d{2},\d{3})/ tried at i
TimingAt(s, i) ==
  /\ TimestampAt(s, i)
  /\ LET a == SkipSpace(s, i + 12)
     IN  /\ HasAt(s, a, <<"-", "-", ">">>)
         /\ TimestampAt(s, SkipSpace(s, a + 3))

isSRTContent(text) == \E i \in 1..Len(text) : TimingAt(text, i)

\* \[\d{2}:\d{2}(\.\d{2,3})?\] tried at position i: the length of the
\* timestamp between the brackets (5, 8 or 9), 0 if there is no match
LrcTagLen(s, i) ==
  IF ~ ( /\ i + 6 <= Len(s)
         /\ s[i] = "["
         /\ IsDigit(s[i + 1]) /\ IsDigit(s[i + 2]) /\ s[i + 3] = ":"
         /\ IsDigit(s[i + 4]) /\ IsDigit(s[i + 5]) )
  THEN 0
  ELSE IF /\ i + 10 <= Len(s) /\ s[i + 6] = "."
          /\ IsDigit(s[i + 7]) /\ IsDigit(s[i + 8]) /\ IsDigit(s[i + 9])
          /\ s[i + 10] = "]"
       THEN 9
  ELSE IF /\ i + 9 <= Len(s) /\ s[i + 6] = "."
          /\ IsDigit(s[i + 7]) /\ IsDigit(s[i + 8])
          /\ s[i + 9] = "]"
       THEN 8
  ELSE IF s[i + 6] = "]" THEN 5
  ELSE 0

\* the m flag: ^ matches at the start of the text and after a line terminator
isLRCContent(text) ==
  \E i \in 1..Len(text) :
    /\ i = 1 \/ IsLineTerminator(text[i - 1])
    /\ LrcTagLen(text, i) > 0

(***************************************************************************)
(* services/parser: the three parsers                                      *)
(***************************************************************************)
ZeroTime == <<"0", "0", ":", "0", "0", ":", "0", "0", ",", "0", "0", "0">>

SubtitleBlock(id, startTime, endTime, originalText) ==
  [id |-> id, startTime |-> startTime, endTime |-> endTime,
   originalText |-> originalText, translatedText |-> EmptyText,
   isTranslating |-> FALSE]

\* lines.findIndex(line => line.includes('-->')), 1-based; 0 for -1
FindArrowLine(lines) ==
  LET hits == {k \in 1..Len(lines) : Includes(lines[k], <<"-", "-", ">">>)}
  IN  IF hits = {} THEN 0 ELSE CHOOSE k \in hits : \A j \in hits : k <= j

\* timeLine.match(...): the position of the leftmost match, 0 for null
TimingMatch(line) ==
  LET hits == {i \in 1..Len(line) : TimingAt(line, i)}
  IN  IF hits = {} THEN 0 ELSE CHOOSE i \in hits : \A j \in hits : i <= j

\* the loop of parseSRT over blocks[k..], idCounter being the next id
RECURSIVE ParseSRTBlocks(_, _, _)
ParseSRTBlocks(blocks, k, idCounter) ==
  IF k > Len(blocks) THEN <<>>
  ELSE
    LET block == blocks[k]
        lines == SplitNL(block)
        arrowIndex == FindArrowLine(lines)
        timeLine == lines[arrowIndex]
        m == TimingMatch(timeLine)
        second == SkipSpace(timeLine, SkipSpace(timeLine, m + 12) + 3)
        originalText ==
          Trim(Join(SubSeq(lines, arrowIndex + 1, Len(lines)), <<NL>>))
    IN  IF Trim(block) = <<>> THEN ParseSRTBlocks(blocks, k + 1, idCounter)
        ELSE IF Len(lines) < 2 THEN ParseSRTBlocks(blocks, k + 1, idCounter)
        ELSE IF arrowIndex = 0 THEN ParseSRTBlocks(blocks, k + 1, idCounter)
        ELSE IF m = 0 THEN ParseSRTBlocks(blocks, k + 1, idCounter)
        ELSE IF originalText = <<>> THEN ParseSRTBlocks(blocks, k + 1, idCounter)
        ELSE << SubtitleBlock(idCounter,
                              SubSeq(timeLine, m, m + 11),
                              SubSeq(timeLine, second, second + 11),
                              originalText) >>
             \o ParseSRTBlocks(blocks, k + 1, idCounter + 1)

parseSRT(content) == ParseSRTBlocks(SplitBlank(NormalizeCRLF(content)), 1, 1)

\* (.*) from position i: up to the first line terminator
DotStar(s, i) ==
  LET stops == {j \in i..Len(s) : IsLineTerminator(s[j])}
  IN  IF stops = {} THEN SubSeq(s, i, Len(s))
      ELSE SubSeq(s, i, (CHOOSE j \in stops : \A k \in stops : j <= k) - 1)

\* the loop of parseLRC over lines[k..], id being the next id
RECURSIVE ParseLRCLines(_, _, _)
ParseLRCLines(lines, k, id) ==
  IF k > Len(lines) THEN <<>>
  ELSE
    LET line == lines[k]
        n == LrcTagLen(line, 1)
        text == Trim(DotStar(line, n + 3))
    IN  IF n = 0 THEN ParseLRCLines(lines, k + 1, id)
        ELSE IF text = <<>> THEN ParseLRCLines(lines, k + 1, id)
        ELSE << SubtitleBlock(id, SubSeq(line, 2, n + 1), EmptyText, text) >>
             \o ParseLRCLines(lines, k + 1, id + 1)

parseLRC(content) == ParseLRCLines(SplitCRNL(content), 1, 1)

\* a parser without the filter: every paragraph becomes a segment
RECURSIVE ParsePlainParagraphsUnfiltered(_, _)
ParsePlainParagraphsUnfiltered(paragraphs, i) ==
  IF i > Len(paragraphs) THEN <<>>
  ELSE << SubtitleBlock(i, ZeroTime, ZeroTime, Trim(paragraphs[i])) >>
         \o ParsePlainParagraphsUnfiltered(paragraphs, i + 1)

\* paragraphs.map((p, i) => ...).filter(b => b.originalText.length > 0):
\* the id is the index of the paragraph before the filter
RECURSIVE ParsePlainParagraphs(_, _)
ParsePlainParagraphs(paragraphs, i) ==
  IF i > Len(paragraphs) THEN <<>>
  ELSE LET b == SubtitleBlock(i, ZeroTime, ZeroTime, Trim(paragraphs[i]))
       IN  (IF Len(b.originalText) > 0 THEN <<b>> ELSE <<>>)
           \o ParsePlainParagraphs(paragraphs, i + 1)

parsePlainText(content) == ParsePlainParagraphs(SplitBlank(content), 1)

(***************************************************************************)
(* services/parser: the serializers                                        *)
(***************************************************************************)
ONLY_TRANSLATION == "ONLY_TRANSLATION"
DUAL_TRANS_SRC == "DUAL_TRANS_SRC"
DUAL_SRC_TRANS == "DUAL_SRC_TRANS"
OutputFormats == {ONLY_TRANSLATION, DUAL_TRANS_SRC, DUAL_SRC_TRANS}

DigitChars == <<"0", "1", "2", "3", "4", "5", "6", "7", "8", "9">>

\* `${n}` for a number n >= 0
RECURSIVE NumberText(_)
NumberText(n) ==
  IF n < 10 THEN << DigitChars[n + 1] >>
  ELSE NumberText(n \div 10) \o << DigitChars[(n % 10) + 1] >>

\* block.translatedText || original
Translated(block) ==
  IF block.translatedText = EmptyText THEN block.originalText
  ELSE block.translatedText

\* the switch over the format that the three serializers share: the text of
\* one block, sep between its two languages
FormatText(block, format, sep) ==
  IF format = DUAL_TRANS_SRC
  THEN Translated(block) \o sep \o block.originalText
  ELSE IF format = DUAL_SRC_TRANS
  THEN block.originalText \o sep \o Translated(block)
  ELSE Translated(block)

\* a serializer that leaves no blank line between the cues
stringifySRTTight(list, format) ==
  LET entry(k) ==
        NumberText(k) \o <<NL>>
          \o list[k].startTime \o <<" ", "-", "-", ">", " ">> \o list[k].endTime
          \o <<NL>> \o FormatText(list[k], format, <<NL>>) \o <<NL>>
  IN  Join([k \in 1..Len(list) |-> entry(k)], <<>>)

\* a serializer that numbers the cues by their stored ids
stringifySRTStoredIds(list, format) ==
  LET entry(k) ==
        NumberText(list[k].id) \o <<NL>>
          \o list[k].startTime \o <<" ", "-", "-", ">", " ">> \o list[k].endTime
          \o <<NL>> \o FormatText(list[k], format, <<NL>>) \o <<NL>>
  IN  Join([k \in 1..Len(list) |-> entry(k)], <<NL>>)

stringifySRT(list, format) ==
  LET entry(k) ==
        NumberText(k) \o <<NL>>
          \o list[k].startTime \o <<" ", "-", "-", ">", " ">> \o list[k].endTime
          \o <<NL>> \o FormatText(list[k], format, <<NL>>) \o <<NL>>
  IN  Join([k \in 1..Len(list) |-> entry(k)], <<NL>>)

\* `[${block.startTime}]`
TimeTag(block) == <<"[">> \o block.startTime \o <<"]">>

stringifyLRC(list, format) ==
  LET entry(k) ==
        TimeTag(list[k])
          \o FormatText(list[k], format, <<NL>> \o TimeTag(list[k]))
  IN  Join([k \in 1..Len(list) |-> entry(k)], <<NL>>)

(***************************************************************************)
(* services/geminiService.ts: translateBatch                               *)
(*                                                                         *)
(* A call of translateBatch is a frame tb: its request, the loop counter   *)
(* attempt, where the call is suspended (pc), and what it has done so far  *)
(* (tries: loop bodies entered; requests: provider requests sent; waits:   *)
(* the backoff delays awaited, in ms; answer: the translations array of    *)
(* the response the call returned on).                                     *)
(*   pc = "request"  awaiting generateContent / fetch                      *)
(*   pc = "backoff"  awaiting wait(ms)                                     *)
(*   pc = "returned" the promise is resolved with result                   *)
(*   pc = "threw"    the promise is rejected with error                    *)
(*   pc = "idle"     no call                                               *)
(***************************************************************************)
GEMINI == "gemini"
CUSTOM == "custom"
AppModelFLASH == "gemini-2.5-flash"

maxRetries == 3

\* x ** n for the backoff
\* a backoff that grows by a product
PowAsProduct(x, n) == x * n

RECURSIVE Pow(_, _)
Pow(x, n) == IF n = 0 THEN 1 ELSE x * Pow(x, n - 1)

NoContext == [defined |-> FALSE, previous |-> EmptyText]

NoRequest ==
  [texts |-> <<>>, context |-> NoContext, provider |-> GEMINI,
   modelName |-> AppModelFLASH,
   customConfig |-> [baseUrl |-> "", apiKey |-> "", modelName |-> ""]]

NoResponse == [kind |-> "none", fenced |-> FALSE, json |-> "none", translations |-> <<>>]

IdleFrame ==
  [req |-> NoRequest, attempt |-> 0, pc |-> "idle", tries |-> 0, requests |-> 0,
   waits |-> <<>>, error |-> "", result |-> <<>>, answer |-> <<>>]

\* a catch block that keeps the error of the first failed attempt
CatchKeepsFirstError(tb, error) ==
  LET attempt == tb.attempt + 1
      first == IF tb.error = "" THEN error ELSE tb.error
  IN  IF attempt = maxRetries
      THEN [tb EXCEPT !.attempt = attempt, !.pc = "threw", !.error = first]
      ELSE [tb EXCEPT !.attempt = attempt, !.pc = "backoff", !.error = first,
                      !.waits = Append(@, 1000 * Pow(2, attempt - 1))]

\* the catch block without attempt++
CatchNoIncrement(tb, error) ==
  [tb EXCEPT !.pc = "backoff", !.waits = Append(@, 1000)]

\* the catch block of the retry loop
Catch(tb, error) ==
  LET attempt == tb.attempt + 1
  IN  IF attempt = maxRetries
      THEN [tb EXCEPT !.attempt = attempt, !.pc = "threw", !.error = error]
      ELSE [tb EXCEPT !.attempt = attempt, !.pc = "backoff",
                      !.waits = Append(@, 1000 * Pow(2, attempt - 1))]

\* !customConfig?.baseUrl || !customConfig?.apiKey
MissingCustomConfig(req) ==
  req.customConfig.baseUrl = "" \/ req.customConfig.apiKey = ""

\* one pass of the loop body up to its first await: the request is built and
\* sent, or building it throws
Attempt(tb) ==
  LET t == [tb EXCEPT !.tries = @ + 1]
  IN  IF t.req.provider = CUSTOM /\ MissingCustomConfig(t.req)
      THEN Catch(t, "Missing Custom Provider Configuration")
      ELSE [t EXCEPT !.pc = "request", !.requests = @ + 1]

\* while (attempt < maxRetries) { ... }  throw new Error("Unexpected error ...")
LoopHead(tb) ==
  IF tb.attempt < maxRetries THEN Attempt(tb)
  ELSE [tb EXCEPT !.pc = "threw", !.error = "Unexpected error in translation loop"]

\* the call: attempt = 0 and the first pass of the loop
translateBatch(req) == LoopHead([IdleFrame EXCEPT !.req = req])

\* jsonText.replace(/```json\n?|\n?```/g, "").trim()
CleanJson(resp) == [resp EXCEPT !.fenced = FALSE]

\* JSON.parse: text inside a code fence, and text that is no JSON, do not parse
JsonParses(resp) == ~resp.fenced /\ resp.json # "garbage"

\* parsed.translations.join('\n')
JoinLines(translations) == Join(translations, <<NL>>)

\* the validation without the merge of an over-split single input
ValidateNoMerge(tb, jsonText) ==
  LET parsed == CleanJson(jsonText)
      texts == tb.req.texts
  IN  IF ~JsonParses(parsed)
        THEN Catch(tb, "Failed to parse JSON response")
      ELSE IF parsed.json # "array"
        THEN Catch(tb, "Invalid JSON structure: missing 'translations' array")
      ELSE IF Len(parsed.translations) # Len(texts)
        THEN Catch(tb, "Length mismatch")
      ELSE [tb EXCEPT !.pc = "returned", !.answer = parsed.translations,
                      !.result = parsed.translations]

\* the validation without the length check
ValidateNoLengthCheck(tb, jsonText) ==
  LET parsed == CleanJson(jsonText)
  IN  IF ~JsonParses(parsed)
        THEN Catch(tb, "Failed to parse JSON response")
      ELSE IF parsed.json # "array"
        THEN Catch(tb, "Invalid JSON structure: missing 'translations' array")
      ELSE [tb EXCEPT !.pc = "returned", !.answer = parsed.translations,
                      !.result = parsed.translations]

\* PARSING & VALIDATION of the text of a response
Validate(tb, jsonText) ==
  LET parsed == CleanJson(jsonText)
      texts == tb.req.texts
  IN  IF ~JsonParses(parsed)
        THEN Catch(tb, "Failed to parse JSON response")
      ELSE IF parsed.json # "array"
        THEN Catch(tb, "Invalid JSON structure: missing 'translations' array")
      ELSE IF Len(texts) = 1 /\ Len(parsed.translations) > 1
        THEN [tb EXCEPT !.pc = "returned", !.answer = parsed.translations,
                        !.result = << JoinLines(parsed.translations) >>]
      ELSE IF Len(parsed.translations) # Len(texts)
        THEN Catch(tb, "Length mismatch")
      ELSE [tb EXCEPT !.pc = "returned", !.answer = parsed.translations,
                      !.result = parsed.translations]

\* the rest of the loop body, once the provider has answered with resp
Respond(t, resp) ==
      IF resp.kind = "network_error" THEN Catch(t, "Failed to fetch")
      ELSE IF t.req.provider = CUSTOM /\ resp.kind = "http_error"
        THEN Catch(t, "Custom API Error")
      ELSE IF t.req.provider = CUSTOM /\ resp.kind = "no_content"
        THEN Catch(t, "Empty response from Custom API")
      ELSE IF resp.kind = "no_content"
        THEN Validate(t, [resp EXCEPT !.json = "garbage"])
      ELSE Validate(t, resp)

(***************************************************************************)
(* The provider, as far as the program can observe it                      *)
(***************************************************************************)
\* a translation of one text
Translation(text) == <<"#">> \o text

Faithful(texts) == [k \in 1..Len(texts) |-> Translation(texts[k])]

\* the arrays a provider may answer with: one entry per input, the first entry
\* empty, one entry short, one entry too many
Answers(texts) ==
  LET good == Faithful(texts)
  IN  { good,
        [k \in 1..Len(texts) |-> IF k = 1 THEN EmptyText ELSE good[k]],
        SubSeq(good, 1, Len(texts) - 1),
        good \o << <<"+">> >> }

ProviderResponses(req) ==
     { [NoResponse EXCEPT !.kind = k] : k \in {"network_error", "no_content"} }
  \cup (IF req.provider = CUSTOM
        THEN { [NoResponse EXCEPT !.kind = "http_error"] } ELSE {})
  \cup { [kind |-> "text", fenced |-> f, json |-> j, translations |-> <<>>] :
           f \in BOOLEAN, j \in {"garbage", "no_translations"} }
  \cup { [kind |-> "text", fenced |-> f, json |-> "array", translations |-> a] :
           f \in BOOLEAN, a \in Answers(req.texts) }

(***************************************************************************)
(* App: the state of the component                                         *)
(***************************************************************************)
PLAIN_TEXT == "PLAIN_TEXT"
SUBTITLE_SRT == "SUBTITLE_SRT"
LYRICS_LRC == "LYRICS_LRC"
ContentTypes == {PLAIN_TEXT, SUBTITLE_SRT, LYRICS_LRC}

BATCH_SIZE == 10

VARIABLES
  blocks,        \* useState<SubtitleBlock[]>
  isProcessing,  \* useState(false)
  progress,      \* useState(0)
  contentType,   \* useState(ContentType.PLAIN_TEXT)
  rawText,       \* useState("")
  provider,      \* useState(LLMProvider.GEMINI)
  customConfig,  \* useState<CustomLLMConfig>
  alertMsg,      \* the alert() the last step raised, <<>> if it raised none
  run,           \* what the running startTranslation closed over, and its i
  tb,            \* the frame of the translateBatch call of the run
  hist,          \* the record of the current run: what it dispatched and wrote
  ops,           \* how many user operations and runs have happened
  outputFormat,  \* useState(OutputFormat.ONLY_TRANSLATION)
  exported       \* the text last handed to the clipboard or the download

vars == << blocks, isProcessing, progress, contentType, rawText, provider,
           customConfig, alertMsg, run, tb, hist, ops, outputFormat, exported >>

appVars == << blocks, isProcessing, progress, contentType, rawText >>
cfgVars == << provider, customConfig >>
outVars == << outputFormat, exported >>

(***************************************************************************)
(* Bounds of the model and the inputs the user supplies                    *)
(***************************************************************************)
\* runs started, and user operations (loads, typed input, changes of the
\* content type and of the settings) in one behaviour
MaxRuns == 2
MaxUserOps == 2

Letters == <<"a", "b", "c", "d", "e", "f", "g", "h", "i", "j", "k", "l", "m">>

\* n one-letter paragraphs separated by blank lines
RECURSIVE Paragraphs(_)
Paragraphs(n) ==
  IF n = 0 THEN <<>>
  ELSE IF n = 1 THEN << Letters[1] >>
  ELSE Paragraphs(n - 1) \o << NL, NL, Letters[n] >>

DocOne == Paragraphs(1)
DocTwelve == Paragraphs(BATCH_SIZE + 2)

DocSrt ==
  << "1", NL,
     "0","0",":","0","0",":","0","1",",","0","0","0", " ", "-","-",">", " ",
     "0","0",":","0","0",":","0","2",",","0","0","0", NL,
     "H", "i", NL, NL,
     "2", NL,
     "0","0",":","0","0",":","0","3",",","0","0","0", " ", "-","-",">", " ",
     "0","0",":","0","0",":","0","4",",","0","0","0", NL,
     "Y", "o", NL >>

\* one lyric line, a blank line and a tag without text
DocLrc ==
  << "[","0","0",":","1","2",".","1","9","]", "L", "a", NL, NL,
     "[","0","0",":","1","5","]" >>

\* the files the user drops or picks
Files == {DocOne, DocTwelve, DocSrt}

\* the texts the user types into the text area
TypedTexts == {DocLrc}

DefaultCustomConfig ==
  [baseUrl |-> "https://api.openai.com/v1", apiKey |-> "", modelName |-> "gpt-4o-mini"]

\* the values typed into the fields of the settings dialog
FieldValues ==
  [baseUrl |-> {"", "https://api.openai.com/v1"},
   apiKey |-> {"", "sk-key"},
   modelName |-> {"", "gpt-4o-mini"}]

\* the record of the current run, kept after the run until the list is parsed
\* anew: the chunks it dispatched, the chunks whose results it wrote, the text
\* it wrote per segment, the translations the list held when the run started,
\* and the chunk it failed at (-1: none)
NoHistory ==
  [dispatched |-> <<>>, written |-> {}, wrote |-> <<>>, startTexts |-> <<>>,
   failedAt |-> -1]

(***************************************************************************)
(* App: the re-parse effect and the input handlers                         *)
(***************************************************************************)
ParseAs(type, text) ==
  IF type = SUBTITLE_SRT THEN parseSRT(text)
  ELSE IF type = LYRICS_LRC THEN parseLRC(text)
  ELSE parsePlainText(text)

\* an effect that never carries the translations over
ReparseEffectNoCarry(text, type, current) ==
  IF text = <<>> THEN current ELSE ParseAs(type, text)

\* an effect that carries the translations over whatever the lengths are
ReparseEffectCarryAlways(text, type, current) ==
  IF text = <<>> THEN current
  ELSE LET newBlocks == ParseAs(type, text)
       IN  [k \in 1..Len(newBlocks) |->
              IF k <= Len(current)
              THEN [newBlocks[k] EXCEPT !.translatedText = current[k].translatedText]
              ELSE newBlocks[k]]

\* useEffect(..., [contentType]): the value setBlocks receives, for the state
\* of the render the effect belongs to
ReparseEffect(text, type, current) ==
  IF text = <<>> THEN current
  ELSE LET currentTranslations == [k \in 1..Len(current) |-> current[k].translatedText]
           newBlocks == ParseAs(type, text)
       IN  IF Len(newBlocks) = Len(currentTranslations)
           THEN [k \in 1..Len(newBlocks) |->
                   [newBlocks[k] EXCEPT !.translatedText = currentTranslations[k]]]
           ELSE newBlocks

\* a detection that tries the lyric check first
DetectTypeLyricsFirst(text) ==
  IF isLRCContent(text) THEN LYRICS_LRC
  ELSE IF isSRTContent(text) THEN SUBTITLE_SRT
  ELSE PLAIN_TEXT

\* Intelligent Detection
DetectType(text) ==
  IF isSRTContent(text) THEN SUBTITLE_SRT
  ELSE IF isLRCContent(text) THEN LYRICS_LRC
  ELSE PLAIN_TEXT

\* the state after a handler has set rawText, contentType and blocks and the
\* component has rendered: the effect runs when contentType has changed
AfterRender(text, type, newBlocks) ==
  /\ hist' = IF isProcessing THEN hist ELSE NoHistory
  /\ rawText' = text
  /\ contentType' = type
  /\ blocks' = IF type # contentType THEN ReparseEffect(text, type, newBlocks)
               ELSE newBlocks

\* user operations are events: they run while the run is suspended at an
\* await, never between the settling of a promise and its continuation
BetweenTasks == tb.pc \in {"idle", "request", "backoff"}

\* processContent, from handleFile (the file input is never disabled)
ProcessContent(text) ==
  /\ alertMsg' = <<>>
  /\ BetweenTasks
  /\ ops.user < MaxUserOps
  /\ ops' = [ops EXCEPT !.user = @ + 1]
  /\ AfterRender(text, DetectType(text), ParseAs(DetectType(text), text))
  /\ UNCHANGED << outVars, isProcessing, progress, cfgVars, run, tb >>

\* handleManualInput: the text area exists only while blocks is empty
HandleManualInput(text) ==
  /\ alertMsg' = <<>>
  /\ BetweenTasks
  /\ Len(blocks) = 0
  /\ ops.user < MaxUserOps
  /\ ops' = [ops EXCEPT !.user = @ + 1]
  /\ IF Len(blocks) = 0
     THEN AfterRender(text, DetectType(text), ParseAs(DetectType(text), text))
     ELSE AfterRender(text, contentType, ParseAs(contentType, text))
  /\ UNCHANGED << outVars, isProcessing, progress, cfgVars, run, tb >>

\* the content type selector: setContentType, then the effect
SetContentType(type) ==
  /\ alertMsg' = <<>>
  /\ BetweenTasks
  /\ type # contentType
  /\ ops.user < MaxUserOps
  /\ ops' = [ops EXCEPT !.user = @ + 1]
  /\ AfterRender(rawText, type, blocks)
  /\ UNCHANGED << outVars, isProcessing, progress, cfgVars, run, tb >>

\* the provider buttons of the settings dialog
SetProvider(p) ==
  /\ alertMsg' = <<>>
  /\ BetweenTasks
  /\ p # provider
  /\ ops.user < MaxUserOps
  /\ ops' = [ops EXCEPT !.user = @ + 1]
  /\ provider' = p
  /\ UNCHANGED << outVars, appVars, customConfig, run, tb, hist >>

\* the fields of the settings dialog: setCustomConfig({...customConfig, f: v})
SetCustomConfig(field, value) ==
  /\ alertMsg' = <<>>
  /\ BetweenTasks
  /\ customConfig[field] # value
  /\ ops.user < MaxUserOps
  /\ ops' = [ops EXCEPT !.user = @ + 1]
  /\ customConfig' = [customConfig EXCEPT ![field] = value]
  /\ UNCHANGED << outVars, appVars, provider, run, tb, hist >>

(***************************************************************************)
(* App: export and copy                                                    *)
(***************************************************************************)
generateFormattedContent(list, type, format) ==
  IF type = SUBTITLE_SRT THEN stringifySRT(list, format)
  ELSE IF type = LYRICS_LRC THEN stringifyLRC(list, format)
  ELSE LET entry(k) == FormatText(list[k], format, <<NL>>)
       IN  Join([k \in 1..Len(list) |-> entry(k)], <<NL, NL>>)

\* the output format selector
SetOutputFormat(format) ==
  /\ alertMsg' = <<>>
  /\ BetweenTasks
  /\ format # outputFormat
  /\ ops.user < MaxUserOps
  /\ ops' = [ops EXCEPT !.user = @ + 1]
  /\ outputFormat' = format
  /\ UNCHANGED << appVars, cfgVars, run, tb, hist, exported >>

\* handleCopy and handleDownload (offered only while blocks is not empty):
\* the content goes to the clipboard or into the file
HandleCopy ==
  /\ alertMsg' = <<>>
  /\ BetweenTasks
  /\ Len(blocks) > 0
  /\ ops.user < MaxUserOps
  /\ ops' = [ops EXCEPT !.user = @ + 1]
  /\ exported' = generateFormattedContent(blocks, contentType, outputFormat)
  /\ UNCHANGED << appVars, cfgVars, run, tb, hist, outputFormat >>

(***************************************************************************)
(* App: startTranslation                                                   *)
(***************************************************************************)
Min(a, b) == IF a <= b THEN a ELSE b

\* a count of chunks that leaves the last, shorter chunk out
FloorDiv(n, d) == n \div d

\* Math.ceil(n / d) for n >= 0, d > 0
CeilDiv(n, d) == (n + d - 1) \div d

\* round(100 * done / total) in exact arithmetic, a half rounded up
RoundedPercent(done, total) == (200 * done + total) \div (2 * total)

(***************************************************************************)
(* The arithmetic of Number (IEEE 754 binary64), for the positive values   *)
(* the progress takes. A Number is [m, e]: m the 53 bits of its            *)
(* significand as the leading 1 and four limbs of 13 bits, highest first,  *)
(* and its value is m * 2^(e - 52).                                        *)
(***************************************************************************)
LimbBase == 8192

\* the limbs t (the first one of any size) with the carries passed upwards
Carried(t) ==
  LET l5 == t[5]
      l4 == t[4] + l5 \div LimbBase
      l3 == t[3] + l4 \div LimbBase
      l2 == t[2] + l3 \div LimbBase
      l1 == t[1] + l2 \div LimbBase
  IN  << l1, l2 % LimbBase, l3 % LimbBase, l4 % LimbBase, l5 % LimbBase >>

\* the next Number above x
RoundUp(x) ==
  LET n == Carried([x.m EXCEPT ![5] = @ + 1])
  IN  IF n[1] = 2 THEN [m |-> <<1, 0, 0, 0, 0>>, e |-> x.e + 1]
      ELSE [m |-> n, e |-> x.e]

\* the least s with k * 2^s >= n, for 1 <= k <= n < 2^17
Normalize(k, n) ==
  CHOOSE s \in 0..17 :
    /\ k * Pow(2, s) >= n
    /\ s = 0 \/ k * Pow(2, s - 1) < n

\* k / n for integers 1 <= k <= n < 2^17, rounded to nearest, ties to even:
\* long division, 13 bits at a time
Divide(k, n) ==
  LET s == Normalize(k, n)
      r0 == k * Pow(2, s) - n
      q1 == (r0 * LimbBase) \div n
      r1 == (r0 * LimbBase) % n
      q2 == (r1 * LimbBase) \div n
      r2 == (r1 * LimbBase) % n
      q3 == (r2 * LimbBase) \div n
      r3 == (r2 * LimbBase) % n
      q4 == (r3 * LimbBase) \div n
      r4 == (r3 * LimbBase) % n
      x == [m |-> <<1, q1, q2, q3, q4>>, e |-> 0 - s]
      up == \/ 2 * r4 > n
            \/ 2 * r4 = n /\ q4 % 2 = 1
  IN  IF up THEN RoundUp(x) ELSE x

\* x * 100, rounded to nearest, ties to even: the product has 59 or 60 bits,
\* of which the lowest 6 or 7 are dropped
Times100(x) ==
  LET t == Carried([i \in 1..5 |-> 100 * x.m[i]])
      D == IF t[1] >= 128 THEN 128 ELSE 64
      dropped == t[5] % D
      kept == [i \in 1..5 |->
                 (IF i = 1 THEN 0 ELSE (t[i - 1] % D) * (LimbBase \div D))
                   + t[i] \div D]
      y == [m |-> kept, e |-> x.e + (IF D = 128 THEN 7 ELSE 6)]
      up == \/ 2 * dropped > D
            \/ 2 * dropped = D /\ kept[5] % 2 = 1
  IN  IF up THEN RoundUp(y) ELSE y

\* Math.round(x) for 0 < x < 4096: the nearest integer, a half rounded up
MathRound(x) ==
  LET top == LimbBase + x.m[2]  \* the highest 14 bits of the significand
  IN  IF x.e < 0 - 1 THEN 0
      ELSE IF x.e = 0 - 1 THEN 1
      ELSE (top \div Pow(2, 13 - x.e)) + ((top \div Pow(2, 12 - x.e)) % 2)

\* Math.round(((done) / total) * 100), each intermediate Number computed once
Percent(done, total) ==
  CHOOSE p \in { MathRound(y) : y \in { Times100(x) : x \in { Divide(done, total) } } } :
    TRUE

\* a write-back without the fall-back to the original
OrElseNothing(a, b) == a

\* a || b on strings
OrElse(a, b) == IF a = <<>> THEN b ELSE a

\* a loop that forgets i++
RepeatChunk(i) == i

\* a loop that resumes at the first chunk that holds a segment without a
\* translation
FirstUntranslatedChunk ==
  LET open == {i \in 0..(CeilDiv(Len(blocks), BATCH_SIZE) - 1) :
                 \E p \in 1..Len(blocks) :
                   /\ (p - 1) \div BATCH_SIZE = i
                   /\ blocks[p].translatedText = EmptyText}
  IN  IF open = {} THEN 0 ELSE CHOOSE i \in open : \A j \in open : i <= j

\* the loop starts at i = 0 and steps by one
FirstChunk == 0
NextChunk(i) == i + 1

\* the indices of chunk i, 0-based as in the code, over the list the run
\* closed over
StartIdx(i) == i * BATCH_SIZE
EndIdx(r, i) == Min(StartIdx(i) + BATCH_SIZE, Len(r.blocks))

\* a marking that flags every segment of the list
MarkTranslatingAll(prev, startIdx, endIdx) ==
  [p \in 1..Len(prev) |-> [prev[p] EXCEPT !.isTranslating = TRUE]]

\* prev.map((b, idx) => idx >= startIdx && idx < endIdx
\*                        ? { ...b, isTranslating: true } : b)
MarkTranslating(prev, startIdx, endIdx) ==
  [p \in 1..Len(prev) |->
     IF p - 1 >= startIdx /\ p - 1 < endIdx
     THEN [prev[p] EXCEPT !.isTranslating = TRUE] ELSE prev[p]]

\* translatedTexts[k], 0-based; "" stands for undefined, which || treats alike
At(translatedTexts, k) ==
  IF k + 1 \in 1..Len(translatedTexts) THEN translatedTexts[k + 1] ELSE EmptyText

\* a write-back without the upper end of the chunk
WriteBackToEnd(prev, startIdx, endIdx, translatedTexts) ==
  [p \in 1..Len(prev) |->
     IF p - 1 >= startIdx
     THEN [prev[p] EXCEPT
             !.translatedText = OrElse(At(translatedTexts, p - 1 - startIdx),
                                       prev[p].originalText),
             !.isTranslating = FALSE]
     ELSE prev[p]]

\* a write-back that puts the translation in the place of the original
WriteBackIntoOriginal(prev, startIdx, endIdx, translatedTexts) ==
  [p \in 1..Len(prev) |->
     IF p - 1 >= startIdx /\ p - 1 < endIdx
     THEN [prev[p] EXCEPT
             !.originalText = OrElse(At(translatedTexts, p - 1 - startIdx),
                                     prev[p].originalText),
             !.translatedText = OrElse(At(translatedTexts, p - 1 - startIdx),
                                       prev[p].originalText),
             !.isTranslating = FALSE]
     ELSE prev[p]]

\* the write-back of a chunk's results
WriteBack(prev, startIdx, endIdx, translatedTexts) ==
  [p \in 1..Len(prev) |->
     IF p - 1 >= startIdx /\ p - 1 < endIdx
     THEN [prev[p] EXCEPT
             !.translatedText = OrElse(At(translatedTexts, p - 1 - startIdx),
                                       prev[p].originalText),
             !.isTranslating = FALSE]
     ELSE prev[p]]

\* an error path that leaves the flags as they are
KeepTranslating(prev) == prev

\* an error path that resets the segments it touches
ClearTranslations(prev) ==
  [p \in 1..Len(prev) |->
     [prev[p] EXCEPT !.isTranslating = FALSE, !.translatedText = EmptyText]]

\* prev.map(b => ({ ...b, isTranslating: false }))
ClearTranslating(prev) ==
  [p \in 1..Len(prev) |-> [prev[p] EXCEPT !.isTranslating = FALSE]]

\* the context of chunk i: read from the list the run closed over
ChunkContext(r, i) ==
  IF i > 0
  THEN [defined |-> TRUE, previous |-> r.blocks[StartIdx(i)].translatedText]
  ELSE NoContext

\* the argument of translateBatch for chunk i
ChunkRequest(r, i) ==
  [texts |-> [k \in 1..(EndIdx(r, i) - StartIdx(i)) |->
                r.blocks[StartIdx(i) + k].originalText],
   context |-> ChunkContext(r, i),
   provider |-> r.provider,
   modelName |-> IF r.provider = GEMINI THEN AppModelFLASH
                 ELSE r.customConfig.modelName,
   customConfig |-> IF r.provider = CUSTOM THEN r.customConfig
                    ELSE NoRequest.customConfig]

NoRun ==
  [blocks |-> <<>>, provider |-> GEMINI, customConfig |-> NoRequest.customConfig,
   totalBatches |-> 0, i |-> 0]

\* a loop that dispatches its chunks without raising the processing indicator
LoopAtUnflagged(r, i, b, h) ==
  IF i < r.totalBatches
  THEN /\ blocks' = MarkTranslating(b, StartIdx(i), EndIdx(r, i))
       /\ tb' = translateBatch(ChunkRequest(r, i))
       /\ run' = [r EXCEPT !.i = i]
       /\ isProcessing' = isProcessing
       /\ hist' = [h EXCEPT !.dispatched = Append(@, i)]
  ELSE /\ blocks' = b
       /\ tb' = IdleFrame
       /\ run' = NoRun
       /\ isProcessing' = FALSE
       /\ hist' = h

\* a loop that leaves the processing indicator on when it is over
LoopAtStaysBusy(r, i, b, h) ==
  IF i < r.totalBatches
  THEN /\ blocks' = MarkTranslating(b, StartIdx(i), EndIdx(r, i))
       /\ tb' = translateBatch(ChunkRequest(r, i))
       /\ run' = [r EXCEPT !.i = i]
       /\ isProcessing' = TRUE
       /\ hist' = [h EXCEPT !.dispatched = Append(@, i)]
  ELSE /\ blocks' = b
       /\ tb' = IdleFrame
       /\ run' = NoRun
       /\ isProcessing' = TRUE
       /\ hist' = h

\* the head of the for loop with the list being b: the next chunk is marked
\* and requested, or the loop is over
LoopAt(r, i, b, h) ==
  IF i < r.totalBatches
  THEN /\ blocks' = MarkTranslating(b, StartIdx(i), EndIdx(r, i))
       /\ tb' = translateBatch(ChunkRequest(r, i))
       /\ run' = [r EXCEPT !.i = i]
       /\ isProcessing' = TRUE
       /\ hist' = [h EXCEPT !.dispatched = Append(@, i)]
  ELSE /\ blocks' = b
       /\ tb' = IdleFrame
       /\ run' = NoRun
       /\ isProcessing' = FALSE
       /\ hist' = h

\* the start button (disabled while isProcessing or without blocks);
\* startTranslation itself has no other guard than blocks.length === 0
StartTranslation ==
  /\ alertMsg' = <<>>
  /\ ~isProcessing
  /\ Len(blocks) # 0
  /\ ops.runs < MaxRuns
  /\ ops' = [ops EXCEPT !.runs = @ + 1]
  /\ progress' = 0
  /\ LoopAt([blocks |-> blocks, provider |-> provider,
             customConfig |-> customConfig,
             totalBatches |-> CeilDiv(Len(blocks), BATCH_SIZE), i |-> 0],
            FirstChunk, blocks,
            [NoHistory EXCEPT
               !.startTexts = [k \in 1..Len(blocks) |-> blocks[k].translatedText],
               !.wrote = [k \in 1..Len(blocks) |-> EmptyText]])
  /\ UNCHANGED << outVars, contentType, rawText, cfgVars >>

\* the provider answers the outstanding request
ProviderResponds ==
  /\ alertMsg' = <<>>
  /\ tb.pc = "request"
  /\ \E resp \in ProviderResponses(tb.req) : tb' = Respond(tb, resp)
  /\ UNCHANGED << outVars, appVars, cfgVars, run, hist, ops >>

\* wait(ms) is over: the next pass of the retry loop
BackoffElapsed ==
  /\ alertMsg' = <<>>
  /\ tb.pc = "backoff"
  /\ tb' = LoopHead(tb)
  /\ UNCHANGED << outVars, appVars, cfgVars, run, hist, ops >>

\* translateBatch returned: write-back, progress, and the next pass of the loop
ChunkDone ==
  /\ alertMsg' = <<>>
  /\ tb.pc = "returned"
  /\ LET s == StartIdx(run.i)
         e == EndIdx(run, run.i)
     IN  /\ progress' = Percent(run.i + 1, run.totalBatches)
         /\ LoopAt(run, NextChunk(run.i),
                   WriteBack(blocks, s, e, tb.result),
                   [hist EXCEPT
                      !.written = @ \cup {run.i},
                      !.wrote = [k \in 1..Len(@) |->
                                   IF k - 1 >= s /\ k - 1 < e
                                   THEN OrElse(At(tb.result, k - 1 - s),
                                               run.blocks[k].originalText)
                                   ELSE @[k]]])
  /\ UNCHANGED << outVars, contentType, rawText, cfgVars, ops >>

\* the fixed texts of the alert (Chinese in the source, glossed here):
\* `${AlertPrefix}${errorMsg}${AlertSuffix}`, errorMsg defaulting to UnknownError
AlertPrefix == "Translation interrupted by an API error: "
AlertSuffix == "\nPlease check the configuration or the network."
UnknownError == "Unknown error"

\* an alert that shows the generic text whatever the error is
AlertTextGeneric(error) == << AlertPrefix, UnknownError, AlertSuffix >>

\* the text of the alert, in its three parts
AlertText(error) ==
  << AlertPrefix, IF error = "" THEN UnknownError ELSE error, AlertSuffix >>

\* translateBatch threw: the catch block of the run
ChunkFailed ==
  /\ tb.pc = "threw"
  /\ isProcessing' = FALSE
  /\ alertMsg' = AlertText(tb.error)
  /\ blocks' = ClearTranslating(blocks)
  /\ tb' = IdleFrame
  /\ run' = NoRun
  /\ hist' = [hist EXCEPT !.failedAt = run.i]
  /\ UNCHANGED << outVars, progress, contentType, rawText, cfgVars, ops >>

(***************************************************************************)
(* The specification                                                       *)
(***************************************************************************)
Init ==
  /\ blocks = <<>>
  /\ isProcessing = FALSE
  /\ progress = 0
  /\ contentType = PLAIN_TEXT
  /\ rawText = <<>>
  /\ provider = GEMINI
  /\ customConfig = DefaultCustomConfig
  /\ alertMsg = <<>>
  /\ run = NoRun
  /\ tb = IdleFrame
  /\ hist = NoHistory
  /\ ops = [runs |-> 0, user |-> 0]
  /\ outputFormat = ONLY_TRANSLATION
  /\ exported = <<>>

Next ==
  \/ \E text \in Files : ProcessContent(text)
  \/ \E text \in TypedTexts : HandleManualInput(text)
  \/ \E type \in ContentTypes : SetContentType(type)
  \/ \E p \in {GEMINI, CUSTOM} : SetProvider(p)
  \/ \E field \in DOMAIN FieldValues :
       \E value \in FieldValues[field] : SetCustomConfig(field, value)
  \/ StartTranslation
  \/ ProviderResponds
  \/ BackoffElapsed
  \/ ChunkDone
  \/ ChunkFailed

Spec == Init /\ [][Next]_vars

\* the event loop runs every continuation that is ready and every timer that
\* is due, and every request gets its response or its failure
FairSpec ==
  /\ Spec
  /\ WF_vars(ProviderResponds)
  /\ WF_vars(BackoffElapsed)
  /\ WF_vars(ChunkDone)
  /\ WF_vars(ChunkFailed)

(***************************************************************************)
(* translateBatch on its own: called with any request of a bounded set,    *)
(* the caller taking the outcome                                           *)
(***************************************************************************)
MaxTexts == 3

BatchTexts(n) == [k \in 1..n |-> << Letters[k] >>]

CustomConfigs ==
  { [baseUrl |-> u, apiKey |-> a, modelName |-> m] :
      u \in FieldValues.baseUrl, a \in FieldValues.apiKey,
      m \in FieldValues.modelName }

Requests ==
     { [texts |-> BatchTexts(n), context |-> NoContext, provider |-> GEMINI,
        modelName |-> AppModelFLASH, customConfig |-> NoRequest.customConfig] :
         n \in 0..MaxTexts }
  \cup { [texts |-> BatchTexts(n), context |-> NoContext, provider |-> CUSTOM,
          modelName |-> c.modelName, customConfig |-> c] :
           n \in 0..MaxTexts, c \in CustomConfigs }

Invoke(req) ==
  /\ tb.pc = "idle"
  /\ tb' = translateBatch(req)
  /\ UNCHANGED << outVars, appVars, cfgVars, alertMsg, run, hist, ops >>

\* the caller's continuation has taken the result or the error
Settle ==
  /\ tb.pc \in {"returned", "threw"}
  /\ tb' = IdleFrame
  /\ UNCHANGED << outVars, appVars, cfgVars, alertMsg, run, hist, ops >>

BatchNext ==
  \/ \E req \in Requests : Invoke(req)
  \/ ProviderResponds
  \/ BackoffElapsed
  \/ Settle

SpecBatch == Init /\ [][BatchNext]_vars

(***************************************************************************)
(* Parsing and export on their own: one text of a bounded set is loaded,   *)
(* parsed as detected or as the selected type, and exported                *)
(***************************************************************************)
\* the texts are made of at most MaxPieces pieces
MaxPieces == 3

TimingLine ==
  << "0","0",":","0","0",":","0","1",",","0","0","0", " ", "-","-",">", " ",
     "0","0",":","0","0",":","0","2",",","0","0","0" >>

LrcTag == << "[","0","0",":","1","2",".","1","9","]" >>

\* a letter, a newline, a space, a carriage return, a blank line, a subtitle
\* cue, a lyric line, a lyric tag without text
InputPieces ==
  { <<"a">>, <<NL>>, <<" ">>, <<CR>>, <<NL, " ", NL>>,
    TimingLine \o <<NL, "b", NL>>,
    LrcTag \o <<"c">>,
    LrcTag }

RECURSIVE TextsOf(_)
TextsOf(n) ==
  IF n = 0 THEN { <<>> }
  ELSE LET shorter == TextsOf(n - 1)
       IN  shorter \cup { t \o p : t \in shorter, p \in InputPieces }

Inputs == TextsOf(MaxPieces)

\* the first thing that happens is that a file is picked
ParseLoad ==
  /\ ops.user = 0
  /\ \E text \in Inputs : ProcessContent(text)

ParseNext ==
  \/ ParseLoad
  \/ \E type \in ContentTypes : SetContentType(type)
  \/ \E format \in OutputFormats : SetOutputFormat(format)
  \/ HandleCopy

SpecParse == Init /\ [][ParseNext]_vars

(***************************************************************************)
(* A run over a long document: the list is the one parsePlainText returns  *)
(* for a file of n one-letter paragraphs, the provider translates every    *)
(* chunk faithfully or the network fails, and the run is the first one     *)
(***************************************************************************)
\* the lengths of the long documents: 40 chunks and 200 chunks
FortyChunks == 40
TwoHundredChunks == 200
LongLengths == {FortyChunks * BATCH_SIZE, TwoHundredChunks * BATCH_SIZE}

\* n paragraphs "a" with a blank line between them, and their segments
LongText(n) == [k \in 1..(3 * n - 2) |-> IF k % 3 = 1 THEN "a" ELSE NL]
LongList(n) == [k \in 1..n |-> SubtitleBlock(k, ZeroTime, ZeroTime, <<"a">>)]

\* the state after processContent(LongText(n)) on the initial state
LongInit ==
  \E n \in LongLengths :
    /\ blocks = LongList(n)
    /\ rawText = LongText(n)
    /\ contentType = PLAIN_TEXT
    /\ ops = [runs |-> 0, user |-> 1]
    /\ isProcessing = FALSE
    /\ progress = 0
    /\ provider = GEMINI
    /\ customConfig = DefaultCustomConfig
    /\ alertMsg = <<>>
    /\ run = NoRun
    /\ tb = IdleFrame
    /\ hist = NoHistory
    /\ outputFormat = ONLY_TRANSLATION
    /\ exported = <<>>

\* the provider answers with one translation per text, or the request fails
ProviderRespondsPlainly ==
  /\ alertMsg' = <<>>
  /\ tb.pc = "request"
  /\ \E resp \in { [NoResponse EXCEPT !.kind = "network_error"],
                    [kind |-> "text", fenced |-> FALSE, json |-> "array",
                     translations |-> Faithful(tb.req.texts)] } :
       tb' = Respond(tb, resp)
  /\ UNCHANGED << outVars, appVars, cfgVars, run, hist, ops >>

FirstRun ==
  /\ ops.runs = 0
  /\ StartTranslation

LongNext ==
  \/ FirstRun
  \/ ProviderRespondsPlainly
  \/ BackoffElapsed
  \/ ChunkDone
  \/ ChunkFailed

SpecLong == LongInit /\ [][LongNext]_vars

(***************************************************************************)
(* Properties                                                              *)
(***************************************************************************)
Texts(list) == [p \in 1..Len(list) |-> list[p].translatedText]

\* C1: whenever translateBatch returns, the returned list has exactly
\* texts.length entries and entry k is the provider's entry k; on the
\* single-input merge path the one entry is the provider's entries in order,
\* a newline between them (the provider of the model over-splits into two).
C1_ReturnAligned ==
  tb.pc = "returned" =>
    /\ Len(tb.result) = Len(tb.req.texts)
    /\ IF Len(tb.req.texts) = 1 /\ Len(tb.answer) > 1
       THEN /\ Len(tb.answer) = 2
            /\ tb.result[1] = tb.answer[1] \o <<NL>> \o tb.answer[2]
       ELSE tb.result = tb.answer

C1_Witness ==
  /\ tb.pc = "returned"
  /\ Len(tb.req.texts) = 1
  /\ Len(tb.answer) = 2
  /\ tb.attempt = 1

\* C2: a call of translateBatch enters the loop body at most 3 times and sends
\* at most 3 requests; it throws only after the 3rd failed attempt, it returns
\* on the attempt that succeeded, and after either no further attempt is made.
C2_AtMostThreeAttempts ==
  [][ /\ tb'.tries <= 3
      /\ tb'.requests <= tb'.tries
      /\ tb'.pc = "threw" => tb'.attempt = 3 /\ tb'.tries = 3
      /\ tb'.pc = "returned" => tb'.tries = tb'.attempt + 1
      /\ tb.pc \in {"threw", "returned"} => tb'.pc = "idle" ]_vars

C2_Witness == tb.pc = "threw" /\ tb.requests = 3

\* C3: for every chunk i > 0 the context passed to translateBatch is the text
\* this run wrote for the last segment of chunk i - 1; chunk 0 gets none.
C3_ContextIsPreviousTranslation ==
  tb.pc # "idle" =>
    IF run.i > 0
    THEN tb.req.context =
           [defined |-> TRUE, previous |-> hist.wrote[StartIdx(run.i)]]
    ELSE tb.req.context = NoContext

\* C4: when translateBatch fails for chunk i the run stops at once: the step
\* that handles the failure dispatches nothing and leaves every translatedText
\* as it was, and after it no chunk beyond i has been dispatched and no call
\* is outstanding.
C4_AbortStopsRun ==
  [][ /\ tb.pc = "threw" =>
           /\ tb'.pc = "idle" /\ ~isProcessing'
           /\ hist'.dispatched = hist.dispatched
           /\ hist'.failedAt = run.i
           /\ Texts(blocks') = Texts(blocks)
      /\ hist'.failedAt >= 0 =>
           /\ tb'.pc = "idle" /\ ~isProcessing'
           /\ \A k \in 1..Len(hist'.dispatched) :
                hist'.dispatched[k] <= hist'.failedAt ]_vars

C4_Witness ==
  /\ hist.failedAt = 1
  /\ Len(blocks) = BATCH_SIZE + 2
  /\ \A p \in 1..BATCH_SIZE : blocks[p].translatedText # EmptyText

\* C5 as stated: after a run that stopped at chunk i, every segment of chunk i
\* and of the later chunks has empty translatedText.
C5_FailedChunksEmpty ==
  hist.failedAt >= 0 =>
    \A p \in 1..Len(blocks) :
      p - 1 >= StartIdx(hist.failedAt) => blocks[p].translatedText = EmptyText

\* C5 as amended: after a run that stopped at chunk i, the run has written
\* nothing to the segments of chunk i and of the later chunks: each is empty
\* or holds the translation the list had at that index when the run started.
C5_FailedChunksUntouched ==
  hist.failedAt >= 0 =>
    \A p \in 1..Len(blocks) :
      p - 1 >= StartIdx(hist.failedAt) =>
        \/ blocks[p].translatedText = EmptyText
        \/ /\ p <= Len(hist.startTexts)
           /\ blocks[p].translatedText = hist.startTexts[p]

C5_Witness ==
  /\ hist.failedAt >= 0
  /\ \E p \in 1..Len(blocks) :
       /\ p - 1 >= StartIdx(hist.failedAt)
       /\ blocks[p].translatedText # EmptyText

\* C6: whenever no run is in progress, no segment has isTranslating set.
C6_NoFlagAtRest ==
  ~isProcessing => \A p \in 1..Len(blocks) : ~blocks[p].isTranslating

C6_Witness ==
  /\ ~isProcessing
  /\ hist.failedAt = 1
  /\ Len(blocks) = BATCH_SIZE + 2

\* the chunks of the run whose call is outstanding: dispatched, and neither
\* written nor failed
Outstanding ==
  { hist.dispatched[k] : k \in 1..Len(hist.dispatched) }
    \ (hist.written \cup {hist.failedAt})

\* C7: chunks are dispatched one after the other in order, chunk i + 1 only
\* once the results of chunk i are written, and at most one chunk is
\* outstanding at any moment.
C7_Sequential ==
  /\ \A k \in 1..Len(hist.dispatched) :
       /\ hist.dispatched[k] = k - 1
       /\ k > 1 => hist.dispatched[k - 1] \in hist.written
  /\ Cardinality(Outstanding) <= 1
  /\ Outstanding # {} => tb.pc # "idle" /\ Outstanding = {run.i}

C7_Witness ==
  /\ tb.pc = "request"
  /\ hist.dispatched = <<0, 1>>
  /\ hist.written = {0}

\* C8: while a run is in progress, a step that is not a step of the run
\* leaves the segment list as it is.
C8_OnlyTheRunWrites ==
  [][ (isProcessing /\ tb' = tb) => blocks' = blocks ]_vars

\* C9: a call with the generic provider and no base URL or no API key throws
\* on its first attempt, without a retry and without a wait.
C9_ConfigErrorIsFatal ==
  (tb.pc # "idle" /\ tb.req.provider = CUSTOM /\ MissingCustomConfig(tb.req)) =>
    tb.pc = "threw" /\ tb.tries = 1 /\ tb.waits = <<>>

\* C10: a call with the generic provider and an empty baseUrl, apiKey or
\* modelName sends no request and does not return a result.
C10_NoRequestWithoutConfig ==
  ( /\ tb.pc # "idle"
    /\ tb.req.provider = CUSTOM
    /\ \/ tb.req.customConfig.baseUrl = ""
       \/ tb.req.customConfig.apiKey = ""
       \/ tb.req.customConfig.modelName = "" ) =>
    tb.requests = 0 /\ tb.pc # "returned"

\* the steps that parse a text anew. A user operation that leaves the
\* settings and the export alone is a load or a change of the content type;
\* a change of the content type keeps the text and changes the type, so
\* the handlers are tried only on the steps that do both.
UserParseStep ==
  /\ ops'.user # ops.user
  /\ cfgVars' = cfgVars
  /\ outVars' = outVars

TypeChanged ==
  /\ UserParseStep
  /\ rawText' = rawText
  /\ contentType' # contentType
  /\ SetContentType(contentType')

NewInput ==
  /\ UserParseStep
  /\ \/ rawText' # rawText
     \/ contentType' = contentType
     \/ rawText' \in Files /\ ProcessContent(rawText')
     \/ rawText' \in TypedTexts /\ HandleManualInput(rawText')

\* every segment that has a translation keeps one over the step
KeepsTranslated ==
  \A p \in 1..Len(blocks) :
    blocks[p].translatedText # EmptyText =>
      p <= Len(blocks') /\ blocks'[p].translatedText # EmptyText

\* C11 as stated: once a segment's translatedText is non-empty, no step makes
\* it empty again.
C11_NeverRevertsToEmpty == [][KeepsTranslated]_vars

\* C11 as amended: once a segment's translatedText is non-empty, no step of a
\* run (further chunks, a failed chunk, a re-run), no change of the settings
\* and no change of the content type whose reparse has the length of the list
\* makes it empty again; new input and a reparse of another length replace
\* the list.
C11_RevertsOnlyOnNewList ==
  [][ (~NewInput /\ ~(TypeChanged /\ Len(blocks') # Len(blocks)))
        => KeepsTranslated ]_vars

C11_Witness ==
  /\ ops.runs = 2
  /\ hist.failedAt = 0
  /\ Len(blocks) > 0
  /\ \A p \in 1..Len(blocks) : blocks[p].translatedText # EmptyText

\* C12: a change of the content type yields a list that has, at every index,
\* the translatedText of the old list if the two lists have the same length,
\* and only empty translations otherwise; a file or a typed text yields a
\* list whose translations are all empty.
C12_CarryIffSameLength ==
  [][ /\ TypeChanged =>
           IF Len(blocks') = Len(blocks)
           THEN Texts(blocks') = Texts(blocks)
           ELSE \A p \in 1..Len(blocks') : blocks'[p].translatedText = EmptyText
      /\ NewInput =>
           \A p \in 1..Len(blocks') : blocks'[p].translatedText = EmptyText ]_vars

\* a list whose translations came over a change of the content type
C12_Witness ==
  /\ ops.runs >= 1
  /\ hist = NoHistory
  /\ contentType # DetectType(rawText)
  /\ Len(blocks) > 0
  /\ \A p \in 1..Len(blocks) : blocks[p].translatedText # EmptyText

\* a list that lost its translations over a change of the content type
C12_WitnessDropped ==
  /\ ops.runs >= 1
  /\ hist = NoHistory
  /\ contentType # DetectType(rawText)
  /\ Len(blocks) > 0
  /\ \A p \in 1..Len(blocks) : blocks[p].translatedText = EmptyText

\* C13: the ids of the segments a parser returns are 1..N in document order,
\* N being the number of segments, whatever was dropped.
C13_IdsSequential ==
  \A k \in 1..Len(blocks) : blocks[k].id = k

C15_TwoTaggedLinesPerSegment ==
  (contentType = LYRICS_LRC /\ Len(blocks) > 0) =>
    \A format \in {DUAL_TRANS_SRC, DUAL_SRC_TRANS} :
      LET lines == SplitNL(stringifyLRC(blocks, format))
      IN  IF Len(lines) # 2 * Len(blocks) THEN FALSE
          ELSE \A j \in 1..Len(lines) :
                 HasAt(lines[j], 1, TimeTag(blocks[(j + 1) \div 2]))

\* C16: when one text is sent and the provider answers with more than one
\* translation (two, for the provider of the model), the attempt returns, without
\* a retry, a wait or an error, the one-entry list that holds the translations
\* in order with a newline between them.
C16_MergeReturnsAtOnce ==
  (tb.pc = "request" /\ Len(tb.req.texts) = 1) =>
    \A resp \in ProviderResponses(tb.req) :
      (resp.kind = "text" /\ resp.json = "array" /\ Len(resp.translations) > 1) =>
        LET t == Respond(tb, resp)
        IN  /\ t.pc = "returned"
            /\ t.attempt = tb.attempt /\ t.tries = tb.tries
            /\ t.requests = tb.requests /\ t.waits = tb.waits
            /\ t.error = ""
            /\ Len(resp.translations) = 2
            /\ t.result =
                 << resp.translations[1] \o <<NL>> \o resp.translations[2] >>

C16_Witness ==
  /\ tb.pc = "returned"
  /\ tb.req.provider = CUSTOM
  /\ Len(tb.req.texts) = 1
  /\ Len(tb.answer) = 2
  /\ tb.attempt = 0

\* the message of the error an attempt fails with when the provider answers
\* resp to the request req, "" if the attempt does not fail
AttemptError(req, resp) ==
  IF resp.kind = "network_error" THEN "Failed to fetch"
  ELSE IF resp.kind = "http_error" THEN "Custom API Error"
  ELSE IF resp.kind = "no_content"
    THEN IF req.provider = CUSTOM THEN "Empty response from Custom API"
         ELSE "Failed to parse JSON response"
  ELSE IF resp.json = "garbage" THEN "Failed to parse JSON response"
  ELSE IF resp.json = "no_translations"
    THEN "Invalid JSON structure: missing 'translations' array"
  ELSE IF Len(req.texts) = 1 /\ Len(resp.translations) > 1 THEN ""
  ELSE IF Len(resp.translations) # Len(req.texts) THEN "Length mismatch"
  ELSE ""

\* the responses that fail the validation: JSON that does not parse, JSON
\* without a translations array, an array of another length than texts
InvalidResponse(req, resp) ==
  /\ resp.kind = "text"
  /\ AttemptError(req, resp) # ""

\* C17: a response that fails the validation makes the attempt a failed one:
\* the attempt counter goes up by one and nothing is returned; the call waits
\* and sends the request again if attempts are left, and throws if this was
\* the 3rd failed attempt.
C17_ValidationFailureRetries ==
  tb.pc = "request" =>
    \A resp \in ProviderResponses(tb.req) :
      InvalidResponse(tb.req, resp) =>
        LET t == Respond(tb, resp)
        IN  /\ t.attempt = tb.attempt + 1
            /\ t.result = <<>>
            /\ IF tb.attempt + 1 < 3
               THEN /\ t.pc = "backoff"
                    /\ LoopHead(t).pc = "request"
                    /\ LoopHead(t).requests = tb.requests + 1
               ELSE t.pc = "threw" /\ t.error = AttemptError(tb.req, resp)

C17_Witness ==
  /\ tb.pc = "threw"
  /\ tb.error = "Length mismatch"
  /\ Len(tb.req.texts) = 3
  /\ tb.requests = 3

\* C18: the waits of a call are 1000 ms after the 1st failed attempt and
\* 2000 ms after the 2nd, and no other: none before the first attempt, none
\* after the 3rd failed attempt.
C18_BackoffWaits ==
  /\ tb.waits = SubSeq(<<1000, 2000>>, 1, Min(tb.attempt, 2))
  /\ tb.pc = "backoff" => tb.attempt \in {1, 2}
  /\ tb.pc = "threw" => tb.waits = <<1000, 2000>>

C18_Witness ==
  /\ tb.pc = "threw"
  /\ tb.waits = <<1000, 2000>>
  /\ tb.error = "Failed to fetch"

\* C19: no error leaves a call while attempts are left, and the error the call
\* throws after its 3rd failed attempt is the error of that attempt.
C19_OnlyTheLastErrorSurfaces ==
  /\ tb.pc # "threw" => tb.error = ""
  /\ tb.pc = "threw" => tb.attempt = 3
  /\ tb.pc = "request" =>
       \A resp \in ProviderResponses(tb.req) :
         LET t == Respond(tb, resp)
         IN  IF AttemptError(tb.req, resp) # "" /\ tb.attempt = 2
             THEN t.pc = "threw" /\ t.error = AttemptError(tb.req, resp)
             ELSE t.pc # "threw" /\ t.error = ""
  /\ tb.pc = "backoff" =>
       LET t == LoopHead(tb)
       IN  IF tb.req.provider = CUSTOM /\ MissingCustomConfig(tb.req)
              /\ tb.attempt = 2
           THEN t.pc = "threw" /\ t.error = "Missing Custom Provider Configuration"
           ELSE t.pc # "threw" /\ t.error = ""

C19_Witness ==
  /\ tb.pc = "threw"
  /\ tb.error = "Invalid JSON structure: missing 'translations' array"
  /\ Len(tb.waits) = 2

\* C20 as stated: the alert of an aborted run is the message of the error
\* translateBatch threw and nothing else.
C20_AlertIsTheErrorMessage ==
  [][ tb.pc = "threw" => alertMsg' = << tb.error >> ]_vars

\* C20 as amended: the alert of an aborted run is the message of the error
\* translateBatch threw, unchanged, between the fixed prefix and the fixed
\* suffix.
C20_AlertQuotesTheErrorMessage ==
  [][ tb.pc = "threw" =>
        /\ tb.error # ""
        /\ alertMsg' = << AlertPrefix, tb.error, AlertSuffix >> ]_vars

C20_Witness ==
  /\ ~isProcessing
  /\ Len(alertMsg) = 3
  /\ alertMsg[2] = "Length mismatch"

\* the share of the chunks done, rounded: what the progress is after a chunk
ProgressIsRoundedShare ==
  tb.pc = "returned" =>
    progress' = RoundedPercent(run.i + 1, run.totalBatches)

\* the progress becomes 100 on the step that completes the last chunk, and on
\* no other step
HundredOnlyAtTheEnd ==
  (progress' = 100 /\ progress # 100) <=>
    (tb.pc = "returned" /\ run.i + 1 = run.totalBatches /\ progress # 100)

\* C21: after each chunk completes the progress is
\* round(100 * completedChunks / totalChunks); a run sets it to 0 when it
\* starts; it never decreases within a run; it reaches 100 exactly when the
\* last chunk completes; a failed chunk does not advance it.
C21_ProgressIsShareOfChunks ==
  [][ /\ ProgressIsRoundedShare
      /\ (tb.pc = "idle" /\ tb'.pc # "idle") => progress' = 0
      /\ (tb.pc # "idle") => progress' >= progress
      /\ HundredOnlyAtTheEnd
      /\ tb.pc = "threw" => progress' = progress ]_vars

\* the step dispatches a chunk: a call of translateBatch begins
Dispatches == tb.pc \in {"idle", "returned"} /\ tb'.pc # "idle"

\* the step ends a run whose chunks all succeeded
RunSucceeds == tb.pc = "returned" /\ tb'.pc = "idle"

\* C22: the k-th chunk a run dispatches holds the segments 10(k-1)+1 .. 10k of
\* the list of N segments the run was started on (up to N for the last one),
\* in order, so the chunks are contiguous, disjoint and of 10 segments except
\* possibly the last; a run whose chunks all succeed has dispatched exactly
\* ceil(N/10) chunks, which cover 1..N (12 segments: 2 chunks, of 10 and 2).
C22_ChunksPartitionTheList ==
  [][ /\ Dispatches =>
           LET k == Len(hist'.dispatched)
               N == Len(run'.blocks)
               first == 10 * (k - 1) + 1
               last == IF 10 * k < N THEN 10 * k ELSE N
           IN  /\ first <= last
               /\ Len(tb'.req.texts) = last - first + 1
               /\ \A j \in first..last :
                    tb'.req.texts[j - first + 1] = run'.blocks[j].originalText
      /\ RunSucceeds =>
           LET count == Len(hist'.dispatched)
               N == Len(run.blocks)
           IN  /\ N >= 1
               /\ 10 * (count - 1) < N /\ N <= 10 * count
               /\ hist'.written = 0..(count - 1) ]_vars

C22_Witness ==
  /\ ~isProcessing
  /\ Len(blocks) = 12
  /\ hist.dispatched = <<0, 1>>
  /\ hist.written = {0, 1}
  /\ hist.failedAt = -1

\* C23: a run started after an aborted run begins with chunk 0, whose request
\* holds the first 10 segments of the list whether or not they carry a
\* translation of the earlier run, and after each chunk that succeeds the next
\* chunk of the list is dispatched, translated or not, until the list is
\* covered.
C23_RestartsFromChunkZero ==
  [][ /\ (tb.pc = "idle" /\ tb'.pc # "idle") =>
           /\ run'.i = 0
           /\ hist'.dispatched = <<0>>
           /\ Len(tb'.req.texts) = Min(10, Len(blocks))
           /\ \A j \in 1..Len(tb'.req.texts) :
                tb'.req.texts[j] = blocks[j].originalText
      /\ (tb.pc = "returned" /\ 10 * (run.i + 1) < Len(run.blocks)) =>
           /\ tb'.pc # "idle"
           /\ run'.i = run.i + 1
           /\ hist'.dispatched = Append(hist.dispatched, run.i + 1) ]_vars

\* the second run on a list whose first chunk the first run translated and
\* whose second chunk it failed at: both chunks are dispatched again
C23_Witness ==
  /\ ops.runs = 2
  /\ Len(blocks) = 12
  /\ Len(hist.startTexts) = 12
  /\ hist.startTexts[1] # EmptyText
  /\ hist.startTexts[11] = EmptyText
  /\ hist.dispatched = <<0, 1>>
  /\ tb.pc = "request"

\* C24: every segment of a list a parser returned has an originalText that is
\* not empty and has no white space at either end, whatever the text and
\* whichever of the three parsers parsed it.
C24_NoEmptyOriginalText ==
  \A k \in 1..Len(blocks) :
    /\ blocks[k].originalText # EmptyText
    /\ ~IsSpace(blocks[k].originalText[1])
    /\ ~IsSpace(blocks[k].originalText[Len(blocks[k].originalText)])

\* a lyric line and a tag without text, parsed as lyrics: the tag is dropped
C24_Witness ==
  /\ rawText = LrcTag \o <<"c", NL>> \o LrcTag
  /\ contentType = LYRICS_LRC
  /\ Len(blocks) = 1

\* the step loads a file: processContent
LoadStep ==
  /\ UserParseStep
  /\ rawText' # rawText \/ contentType' = contentType
  /\ ProcessContent(rawText')

\* C25: a loaded text that holds a subtitle timing line is classified as a
\* subtitle, also when a line of it starts with a lyric tag; a text that holds
\* no timing line and a line that starts with a lyric tag is classified as
\* lyrics; a text that holds neither is plain text.
C25_SubtitleCheckFirst ==
  [][ LoadStep =>
        /\ isSRTContent(rawText') => contentType' = SUBTITLE_SRT
        /\ (~isSRTContent(rawText') /\ isLRCContent(rawText')) =>
             contentType' = LYRICS_LRC
        /\ (~isSRTContent(rawText') /\ ~isLRCContent(rawText')) =>
             contentType' = PLAIN_TEXT ]_vars

\* a cue followed by a lyric line, loaded and classified as a subtitle
C25_Witness ==
  /\ ops.user = 1
  /\ rawText = TimingLine \o <<NL, "b", NL>> \o LrcTag \o <<"c">>
  /\ isLRCContent(rawText)
  /\ contentType = SUBTITLE_SRT
  /\ Len(blocks) = 1

\* C26: the subtitle serialization of the list a load produced, of whatever
\* type and with whatever ids, in each output format: the cues are separated
\* by exactly one blank line, the first line of the k-th cue is the number k,
\* and its second line is the stored startTime, " --> " and the stored
\* endTime.
C26_CuesRenumbered ==
  (ops.user = 1 /\ Len(blocks) > 0) =>
    \A format \in OutputFormats :
      LET out == stringifySRT(blocks, format)
          cues == SplitBlank(out)
      IN  /\ Len(cues) = Len(blocks)
          /\ out = Join(cues, <<NL, NL>>)
          /\ ~Includes(out, <<NL, NL, NL>>)
          /\ \A k \in 1..Len(cues) :
               LET lines == SplitNL(cues[k])
               IN  /\ Len(lines) >= 3
                   /\ lines[1] = NumberText(k)
                   /\ lines[2] = blocks[k].startTime
                                   \o <<" ", "-", "-", ">", " ">>
                                   \o blocks[k].endTime

\* two cues, loaded and serialized
C26_Witness ==
  /\ ops.user = 1
  /\ contentType = SUBTITLE_SRT
  /\ Len(blocks) = 2
  /\ Len(SplitBlank(stringifySRT(blocks, outputFormat))) = 2

\* the positions of the segments that are flagged isTranslating
Flagged == {p \in 1..Len(blocks) : blocks[p].isTranslating}

\* C27: at every moment the flagged segments lie within the positions
\* 10i+1 .. 10i+10 of the one chunk i whose call is outstanding, and no
\* segment is flagged when no call is outstanding.
C27_FlaggedWithinChunkInFlight ==
  IF Outstanding = {} THEN Flagged = {}
  ELSE \E i \in Outstanding :
         /\ Outstanding = {i}
         /\ Flagged \subseteq (10 * i + 1)..(10 * i + 10)

\* the second chunk of 12 segments is in flight, its two segments flagged
C27_Witness ==
  /\ tb.pc = "request"
  /\ Outstanding = {1}
  /\ Flagged = {11, 12}

\* C28: a step of the run (the start, a chunk's completion, a chunk's failure,
\* and the steps of the call in between) leaves the list with the same
\* length and every segment with the same id, startTime, endTime and
\* originalText at the same position.
C28_RunKeepsTheSegments ==
  [][ ops'.user = ops.user =>
        /\ Len(blocks') = Len(blocks)
        /\ \A p \in 1..Len(blocks) :
             /\ blocks'[p].id = blocks[p].id
             /\ blocks'[p].startTime = blocks[p].startTime
             /\ blocks'[p].endTime = blocks[p].endTime
             /\ blocks'[p].originalText = blocks[p].originalText ]_vars

\* a run has flagged and written the first chunk, flagged the second and
\* cleared the flags when it failed
C28_Witness ==
  /\ hist.failedAt = 1
  /\ hist.written = {0}
  /\ Len(blocks) = 12
  /\ blocks[1].translatedText = Translation(blocks[1].originalText)
  /\ \A p \in 1..Len(blocks) : blocks[p].id = p

\* C29: the step that completes chunk i sets the translatedText of every
\* segment of the chunk to the entry the call returned for it, or to the
\* segment's originalText where that entry is empty, and never to the empty
\* text; after a run whose chunks all succeeded and during which the user did
\* nothing (the one user operation being the load before the first run), every
\* segment has a translatedText that is not empty.
C29_NoEmptyTranslationAfterSuccess ==
  [][ /\ tb.pc = "returned" =>
           \A p \in 1..Len(blocks) :
             (10 * run.i < p /\ p <= 10 * run.i + 10 /\ p <= Len(run.blocks)) =>
               /\ blocks'[p].translatedText # EmptyText
               /\ blocks'[p].translatedText =
                    IF tb.result[p - 10 * run.i] # EmptyText
                    THEN tb.result[p - 10 * run.i]
                    ELSE blocks[p].originalText
      /\ (RunSucceeds /\ ops.user = 1) =>
           /\ Len(blocks') = Len(run.blocks)
           /\ \A p \in 1..Len(blocks') :
                blocks'[p].translatedText # EmptyText ]_vars

\* a run of two chunks that succeeded, the provider having returned an empty
\* entry for the first segment
C29_Witness ==
  /\ ~isProcessing
  /\ ops.user = 1
  /\ hist.written = {0, 1}
  /\ hist.failedAt = -1
  /\ Len(blocks) = 12
  /\ blocks[1].translatedText = blocks[1].originalText
  /\ blocks[12].translatedText = Translation(blocks[12].originalText)

\* C30: provided every request is answered or fails, every run that was
\* started comes to its end, by its last chunk or by an abort, and whenever no
\* run is under way the processing indicator is off.
C30_RunTerminates ==
  /\ []<>(tb.pc = "idle" /\ ~isProcessing)
  /\ [](tb.pc = "idle" => ~isProcessing)

\* a run that ended by an abort
C30_Witness ==
  /\ tb.pc = "idle"
  /\ ~isProcessing
  /\ ops.runs = 1
  /\ hist.failedAt = 0
  /\ Len(alertMsg) = 3

\* C31: when a chunk's results are written back, a segment that is not the
\* one the run requested the translation for (the list was loaded anew while
\* the request was in flight, and the segment at that position has another
\* originalText) does not receive the entry the provider returned for the
\* old segment.
C31_NoStaleWriteBack ==
  [][ tb.pc = "returned" =>
        \A p \in 1..Len(blocks) :
          ( /\ p - 1 >= StartIdx(run.i)
            /\ p - 1 < EndIdx(run, run.i)
            /\ blocks[p].originalText # run.blocks[p].originalText
            /\ At(tb.result, p - 1 - StartIdx(run.i)) # EmptyText )
          => blocks'[p].translatedText # At(tb.result, p - 1 - StartIdx(run.i)) ]_vars

\* C32: whenever the start button is enabled (the processing indicator is
\* off and the list is not empty) no run is under way: no call of
\* translateBatch is outstanding and no loop is suspended, so a run that
\* starts is the only one.
C32_OneRunAtATime ==
  (~isProcessing /\ Len(blocks) # 0) => (tb.pc = "idle" /\ run = NoRun)

\* the second run, started after the first one was over, waits for its first
\* answer with the button disabled
C32_Witness ==
  /\ isProcessing
  /\ Len(blocks) # 0
  /\ ops.runs = 2
  /\ tb.pc = "request"
  /\ hist.dispatched = << 0 >>

====
